---------------------------- MODULE Spec2Model ----------------------------
(***************************************************************************)
(* Interactive Mandelbrot / Julia viewer (FaffyWaffles/MandelbrotJS).      *)
(*                                                                         *)
(* Two programs of the repository are modelled side by side, selected by   *)
(* the variable `program`:                                                 *)
(*   "single"  - src/Mandelbrot.js: one shared constant currentC,          *)
(*               targetScale = defaultMandelbrotScale / sliderValue;       *)
(*   "markers" - src/unnamed/part_002 lines 1-652: two markers             *)
(*               (markers.mandelbrot, markers.julia), logarithmic zoom     *)
(*               between MAX_SCALE and MIN_SCALE.                          *)
(*                                                                         *)
(* Numbers.  JavaScript numbers of the page (scale, center, constant) are  *)
(* fixed-point integers counted in 1/Unit; every product is rounded to     *)
(* that grid where the code rounds to a double.  Shader values (f32) are   *)
(* fixed-point integers counted in 1/FUnit, the doubles of calculateOrbit  *)
(* in the finer 1/DUnit.  Where a claim is an algebraic                    *)
(* identity of the formulas (the coordinate round trip, the colour map)    *)
(* the formulas are evaluated over exact rationals <<num, den>>.           *)
(***************************************************************************)
EXTENDS Integers, Sequences, FiniteSets, TLC

VARIABLES
    program,                 \* which of the two programs runs
    phase,                   \* progress of the DOMContentLoaded handler
    currentC,                \* Mandelbrot.js: let currentC
    markers,                 \* part_002: const markers
    mandelbrotScale,         \* let mandelbrotScale
    mandelbrotCenter,        \* let mandelbrotCenter
    targetMandelbrotScale,   \* let targetMandelbrotScale
    targetMandelbrotCenter,  \* let targetMandelbrotCenter
    isDragging,              \* the isDragging closure variable of each panel
    juliaCValue,             \* contents of the Julia panel's cValueBuffer
    pending,                 \* animateZoom callbacks queued in requestAnimationFrame
    last,                    \* what the handler that ran last did
    steps,                   \* animateZoom calls that moved the view since the last updateZoom
    quiet,                   \* frames presented since the last input event (capped)
    inputsLeft,              \* input events (mouse, slider) still to come
    showOrbits,              \* the checked state of the showOrbits checkbox
    iterations,              \* the value of the iterations slider
    iterationBuffer,         \* contents of each panel's iterationBuffer (0: not created)
    overlay,                 \* what is drawn on each panel's marker canvas
    readout,                 \* the numbers shown in the cReal / cImag spans
    settingsLeft,            \* iteration-slider and checkbox events still to come
    sh,                      \* one fragment-shader invocation pair (same c, z0; two budgets)
    input,                   \* argument of a pure function under test
    output                   \* its result

uiVars == <<program, phase, currentC, markers, mandelbrotScale, mandelbrotCenter,
            targetMandelbrotScale, targetMandelbrotCenter, isDragging, juliaCValue,
            pending, last, steps, quiet, inputsLeft, showOrbits, iterations,
            iterationBuffer, overlay, readout, settingsLeft>>
vars == <<uiVars, sh, input, output>>

---------------------------------------------------------------------------
(* Bounds of the model                                                     *)

\* fixed-point resolution of page numbers: 1.0 = Unit
Unit == 1000000
\* fixed-point resolution of shader (f32) numbers: 1.0 = FUnit
FUnit == 1024
\* input events (mouse events, slider changes) in one run
MaxInputs == 2
\* an input event arrives within this many frames of the previous one, or when
\* no animation callback is queued
InputWindow == 1
\* iteration budgets 1..SmallBudgets are all tried (with the default and the maximum)
SmallBudgets == 8
\* iteration-slider and checkbox events in one run of the whole page
MaxSettings == 2
\* fixed-point resolution of the doubles of calculateOrbit: 1.0 = DUnit, finer than
\* the f32 grid of the shader
DUnit == 4096

---------------------------------------------------------------------------
(* Program constants                                                       *)

canvasWidth == 800
canvasHeight == 600
\* iterations slider: min, default (initialIterations), max
MinIterations == 1
DefaultIterations == 200
MaxIterations == 1000

---------------------------------------------------------------------------
(* Integer helpers                                                         *)

Abs(x) == IF x < 0 THEN -x ELSE x
Min(a, b) == IF a < b THEN a ELSE b
Max(a, b) == IF a > b THEN a ELSE b

RECURSIVE GCD(_, _)
GCD(a, b) == IF b = 0 THEN Abs(a) ELSE GCD(b, a % b)

\* a * n / d rounded down to the grid (n/d reduced first; d > 0)
MulDiv(a, n, d) ==
    LET g == GCD(n, d)
    IN  (a * (n \div g)) \div (d \div g)

\* largest r with r * r <= n
RECURSIVE SqrtBetween(_, _, _)
SqrtBetween(n, lo, hi) ==
    IF lo >= hi THEN lo
    ELSE LET mid == (lo + hi + 1) \div 2
         IN  IF mid * mid <= n THEN SqrtBetween(n, mid, hi) ELSE SqrtBetween(n, lo, mid - 1)
ISqrt(n) == SqrtBetween(n, 0, Min(n, 46340))

---------------------------------------------------------------------------
(* Exact rationals <<num, den>>, den > 0, in lowest terms                  *)

RNorm(n, d) ==
    LET s == IF d < 0 THEN -1 ELSE 1
        g == GCD(n, d)
    IN  IF n = 0 THEN <<0, 1>> ELSE <<(s * n) \div g, (s * d) \div g>>
RInt(n) == <<n, 1>>
RMul(p, q) ==
    LET g1 == GCD(p[1], q[2])
        g2 == GCD(q[1], p[2])
    IN  IF p[1] = 0 \/ q[1] = 0 THEN <<0, 1>>
        ELSE RNorm((p[1] \div g1) * (q[1] \div g2), (p[2] \div g2) * (q[2] \div g1))
RDiv(p, q) == RMul(p, IF q[1] < 0 THEN <<-q[2], -q[1]>> ELSE <<q[2], q[1]>>)
RAdd(p, q) ==
    LET g == GCD(p[2], q[2])
    IN  RNorm(p[1] * (q[2] \div g) + q[1] * (p[2] \div g), (p[2] \div g) * q[2])
RNeg(p) == <<-p[1], p[2]>>
RSub(p, q) == RAdd(p, RNeg(q))
RAbs(p) == <<Abs(p[1]), p[2]>>
RFloor(p) == p[1] \div p[2]
RLess(p, q) == p[1] * q[2] < q[1] * p[2]
RLeq(p, q) == p[1] * q[2] <= q[1] * p[2]

\* const aspectRatio = canvasWidth / canvasHeight
aspectRatio == RNorm(canvasWidth, canvasHeight)

---------------------------------------------------------------------------
(* Coordinate mapping over exact rationals                                 *)

\* the mousedown / mousemove handler's pixel-to-plane formula
planeOfPixelR(mouseX, mouseY, w, h, center, scale, aspect) ==
    [x |-> RAdd(RSub(RMul(RMul(RMul(RDiv(mouseX, RInt(w)), RInt(2)), scale), aspect),
                     RMul(scale, aspect)),
                center.x),
     y |-> RAdd(RAdd(RMul(RMul(RDiv(mouseY, RInt(h)), RInt(-2)), scale), scale),
                center.y)]

\* toCanvasCoords without the vertical flip (point.y - center.y)
toCanvasCoordsR_noFlip(point, w, h, center, scale, aspect) ==
    [x |-> RAdd(RMul(RDiv(RSub(point.x, center.x), RMul(scale, aspect)), RNorm(w, 2)),
                RNorm(w, 2)),
     y |-> RAdd(RMul(RDiv(RSub(point.y, center.y), scale), RNorm(h, 2)),
                RNorm(h, 2))]

\* function toCanvasCoords(point, width, height, mandelbrotCenter, mandelbrotScale, aspectRatio)
toCanvasCoordsR(point, w, h, center, scale, aspect) ==
    [x |-> RAdd(RMul(RDiv(RSub(point.x, center.x), RMul(scale, aspect)), RNorm(w, 2)),
                RNorm(w, 2)),
     y |-> RAdd(RMul(RDiv(RSub(center.y, point.y), scale), RNorm(h, 2)),
                RNorm(h, 2))]

---------------------------------------------------------------------------
(* Page state: constants of the two programs                               *)

\* const defaultMandelbrotScale = 1.5
defaultMandelbrotScale == (3 * Unit) \div 2
\* const defaultMandelbrotCenter = { x: -0.5, y: 0.0 }
defaultMandelbrotCenter == [x |-> -(Unit \div 2), y |-> 0]
\* const MIN_SCALE = 1e-6 (part_002)
MIN_SCALE == Unit \div 1000000
\* const MAX_SCALE = defaultMandelbrotScale (part_002)
MAX_SCALE == defaultMandelbrotScale
\* the 0.0001 of animateZoom's three comparisons
Epsilon == Unit \div 10000
\* zoomSpeed * x, const zoomSpeed = 0.05
zoomSpeedTimes(x) == MulDiv(x, 5, 100)

Programs == {"single", "markers"}
Panels == {"mandelbrot", "julia"}
Origin == [x |-> 0, y |-> 0]

\* new Float32Array([v]): the nearest number with a 24-bit significand
F32Bits == 24
RECURSIVE BitLength(_)
BitLength(n) == IF n = 0 THEN 0 ELSE 1 + BitLength(n \div 2)
ToF32(v) ==
    LET drop == BitLength(Abs(v)) - F32Bits
        grain == 2 ^ drop
    IN  IF drop <= 0 THEN v
        ELSE IF v >= 0 THEN ((v + grain \div 2) \div grain) * grain
        ELSE -(((-v + grain \div 2) \div grain) * grain)
ToF32Pair(p) == [x |-> ToF32(p.x), y |-> ToF32(p.y)]

\* mouse positions (clientX - rect.left, clientY - rect.top) tried by the model
Pixels == {<<400, 300>>, <<600, 150>>, <<0, 600>>}

\* zoom-slider positions tried by the model, in tenths (both sliders run 1..100;
\* part_002 sets step = 0.1, Mandelbrot.js keeps the default step 1)
SliderTenths(prog) == IF prog = "single" THEN {10, 20, 1000} ELSE {10, 505, 1000}

\* the constant that seeds the Julia evaluator: currentC, or markers.mandelbrot
sharedConstant == IF program = "single" THEN currentC ELSE markers.mandelbrot

---------------------------------------------------------------------------
(* Handlers                                                                *)

\* mousedown / mousemove: pixel to plane, with the globals mandelbrotScale, mandelbrotCenter
planeOfPixel(mouseX, mouseY, center, scale) ==
    [x |-> MulDiv(scale, mouseX * 2 * aspectRatio[1], canvasWidth * aspectRatio[2])
           - MulDiv(scale, aspectRatio[1], aspectRatio[2]) + center.x,
     y |-> -MulDiv(scale, mouseY * 2, canvasHeight) + scale + center.y]

\* only a Julia-panel drag reaching the Julia c uniform
feedsJulia_juliaOnly(prog, panel) == panel = "julia"
\* updateC written with the test of updateMarker
feedsJulia_asMarkers(prog, panel) == panel = "mandelbrot"
\* updateMarker written without its test
feedsJulia_always(prog, panel) == TRUE

\* does this program's update function write the Julia c uniform for a drag on `panel`?
\* updateC: always; updateMarker: if (type === 'mandelbrot')
feedsJulia(prog, panel) == prog = "single" \/ panel = "mandelbrot"

\* sharedState.juliaBuffers && sharedState.juliaBuffers.cValueBuffer / sharedState.juliaRender
juliaReady == phase = "ready"

\* drawMarker's test of toCanvasCoords(c): x < 0 || x > width || y < 0 || y > height,
\* with x = (c.x - center.x) / (scale * aspectRatio) * width / 2 + width / 2 and
\* y = (center.y - c.y) / scale * height / 2 + height / 2
outsideCanvas(c, center, scale) ==
    \/ Abs(c.x - center.x) * aspectRatio[2] > scale * aspectRatio[1]
    \/ Abs(c.y - center.y) > scale

\* a marker canvas after clearRect
Blank == [circle |-> "none", orbit |-> <<>>]

\* drawOrbit(ctx, calculateOrbit(c.x, c.y, maxIter), width, height): clearRect, the
\* polyline and the dots of the orbit (recorded by the arguments of calculateOrbit),
\* and in Mandelbrot.js the marker circle of currentC at its projected position
drawOrbit(prog, c, maxIter, center, scale) ==
    [circle |-> IF prog = "markers" THEN "none"
                ELSE IF outsideCanvas(c, center, scale) THEN "offCanvas" ELSE "onCanvas",
     orbit |-> <<c.x, c.y, maxIter>>]

\* drawMarker(markerCanvas, c) on the marker canvas of `panel`, the showOrbits
\* checkbox being `checked`
drawMarker(panel, c, center, scale, checked) ==
    IF outsideCanvas(c, center, scale) THEN Blank
    ELSE IF checked /\ panel = "mandelbrot"
    THEN drawOrbit(program, c, iterations, center, scale)
    ELSE [circle |-> "onCanvas", orbit |-> <<>>]

\* Number.prototype.toFixed(digits) of a page number: the nearest multiple of 10^-digits
toFixed(v, digits) ==
    LET grain == Unit \div (10 ^ digits)
    IN  IF grain <= 1 THEN v
        ELSE IF v >= 0 THEN ((2 * v + grain) \div (2 * grain)) * grain
        ELSE -(((2 * (-v) + grain) \div (2 * grain)) * grain)

\* the readout of part_002 written only for the Mandelbrot marker
readoutAfter_mandelbrotOnly(prog, panel, pt) ==
    IF prog = "single" THEN [x |-> toFixed(pt.x, 2), y |-> toFixed(pt.y, 2)]
    ELSE IF panel = "mandelbrot" THEN [x |-> toFixed(pt.x, 6), y |-> toFixed(pt.y, 6)]
    ELSE readout

\* cReal.textContent = x.toFixed(2) (updateC), x.toFixed(6) (updateMarker)
readoutAfter(prog, panel, pt) ==
    IF prog = "single" THEN [x |-> toFixed(pt.x, 2), y |-> toFixed(pt.y, 2)]
    ELSE [x |-> toFixed(pt.x, 6), y |-> toFixed(pt.y, 6)]

\* updateC(newC, sharedState) of Mandelbrot.js, updateMarker(newPosition, type, sharedState)
\* of part_002, called by the mouse handlers of `panel`
updatePoint(ev, panel, pt) ==
    /\ IF program = "single"
       THEN currentC' = pt /\ UNCHANGED markers
       ELSE markers' = [markers EXCEPT ![panel] = pt] /\ UNCHANGED currentC
    /\ juliaCValue' = IF feedsJulia(program, panel) /\ juliaReady
                      THEN ToF32Pair(pt) ELSE juliaCValue
    /\ last' = [ev |-> ev, panel |-> panel, point |-> pt,
                wroteJuliaC |-> feedsJulia(program, panel) /\ juliaReady,
                renderedJulia |-> feedsJulia(program, panel) /\ juliaReady,
                renderedMandelbrot |-> FALSE, wroteView |-> FALSE,
                drewMarker |-> IF program = "single" THEN Panels ELSE {panel},
                alert |-> FALSE, failure |-> "none"]
    /\ overlay' = [p \in Panels |->
                      IF program = "single" \/ p = panel
                      THEN drawMarker(p, pt, mandelbrotCenter, mandelbrotScale, showOrbits)
                      ELSE overlay[p]]
    /\ readout' = readoutAfter(program, panel, pt)

NoEffect(ev, panel) ==
    [ev |-> ev, panel |-> panel, point |-> Origin, wroteJuliaC |-> FALSE,
     renderedJulia |-> FALSE, renderedMandelbrot |-> FALSE, wroteView |-> FALSE,
     drewMarker |-> {}, alert |-> FALSE, failure |-> "none"]

\* animateZoom redrawing both marker overlays, as updateC does
zoomEffects_bothMarkers(ev, rendered) ==
    [NoEffect(ev, "mandelbrot") EXCEPT !.renderedMandelbrot = rendered,
                                       !.wroteView = rendered,
                                       !.drewMarker = IF rendered THEN Panels ELSE {}]

\* the effects of animateZoom calls of which `rendered` found needsRender: the two
\* writeBuffer calls, mandelbrotRender(), drawMarker(mandelbrotMarkerCanvas, ...)
zoomEffects(ev, rendered) ==
    [NoEffect(ev, "mandelbrot") EXCEPT !.renderedMandelbrot = rendered,
                                       !.wroteView = rendered,
                                       !.drewMarker = IF rendered THEN {"mandelbrot"} ELSE {}]

\* canvas.addEventListener(...) has run for this panel
listening(panel) == IF panel = "mandelbrot" THEN phase \in {"mandelbrot", "ready", "juliaFailed"}
                    ELSE phase = "ready"

\* the model's pacing of input events
inputMayArrive == inputsLeft > 0 /\ (pending = 0 \/ quiet <= InputWindow)

viewVars == <<mandelbrotScale, mandelbrotCenter, targetMandelbrotScale, targetMandelbrotCenter>>
settingVars == <<showOrbits, iterations, iterationBuffer, settingsLeft>>

\* a mousedown that also recentres the view on the point
MouseDown_recentres(panel, px) ==
    /\ listening(panel) /\ inputMayArrive
    /\ isDragging' = [isDragging EXCEPT ![panel] = TRUE]
    /\ updatePoint("mousedown", panel, planeOfPixel(px[1], px[2], mandelbrotCenter, mandelbrotScale))
    /\ targetMandelbrotCenter' = planeOfPixel(px[1], px[2], mandelbrotCenter, mandelbrotScale)
    /\ inputsLeft' = inputsLeft - 1 /\ quiet' = 0
    /\ UNCHANGED <<program, phase, mandelbrotScale, mandelbrotCenter, targetMandelbrotScale,
                   pending, steps, settingVars, sh, input, output>>

MouseDown(panel, px) ==
    /\ listening(panel) /\ inputMayArrive
    /\ isDragging' = [isDragging EXCEPT ![panel] = TRUE]
    /\ updatePoint("mousedown", panel, planeOfPixel(px[1], px[2], mandelbrotCenter, mandelbrotScale))
    /\ inputsLeft' = inputsLeft - 1 /\ quiet' = 0
    /\ UNCHANGED <<program, phase, viewVars, pending, steps, settingVars, sh, input, output>>

MouseMove(panel, px) ==
    /\ listening(panel) /\ inputMayArrive
    /\ IF isDragging[panel]
       THEN updatePoint("mousemove", panel, planeOfPixel(px[1], px[2], mandelbrotCenter, mandelbrotScale))
       ELSE /\ last' = NoEffect("mousemove", panel)
            /\ UNCHANGED <<currentC, markers, juliaCValue, overlay, readout>>
    /\ inputsLeft' = inputsLeft - 1 /\ quiet' = 0
    /\ UNCHANGED <<program, phase, viewVars, isDragging, pending, steps, settingVars,
                   sh, input, output>>

\* one isDragging flag shared by the two panels
MouseRelease_sharedFlag(ev, panel) ==
    /\ listening(panel) /\ inputMayArrive
    /\ isDragging' = [p \in Panels |-> FALSE]
    /\ last' = NoEffect(ev, panel)
    /\ inputsLeft' = inputsLeft - 1 /\ quiet' = 0
    /\ UNCHANGED <<program, phase, viewVars, currentC, markers, juliaCValue, pending, steps,
                   overlay, readout, settingVars, sh, input, output>>

\* mouseup and mouseleave: isDragging = false
MouseRelease(ev, panel) ==
    /\ listening(panel) /\ inputMayArrive
    /\ isDragging' = [isDragging EXCEPT ![panel] = FALSE]
    /\ last' = NoEffect(ev, panel)
    /\ inputsLeft' = inputsLeft - 1 /\ quiet' = 0
    /\ UNCHANGED <<program, phase, viewVars, currentC, markers, juliaCValue, pending, steps,
                   overlay, readout, settingVars, sh, input, output>>
MouseUp(panel) == MouseRelease("mouseup", panel)
MouseLeave(panel) == MouseRelease("mouseleave", panel)

---------------------------------------------------------------------------
(* Zoom                                                                    *)

\* interpolate returning the target whenever the step is below 0.0001
interpolate_snapsSmallSteps(current, target, speed) ==
    IF speed < Epsilon THEN target
    ELSE IF current < target THEN Min(current + speed, target)
    ELSE Max(current - speed, target)

\* interpolate without Math.min / Math.max
interpolate_unclamped(current, target, speed) ==
    IF current < target THEN current + speed ELSE current - speed

\* function interpolate(current, target, speed)
interpolate(current, target, speed) ==
    IF current < target THEN Min(current + speed, target)
    ELSE Max(current - speed, target)

\* the three "if (Math.abs(current - target) > 0.0001)" blocks of animateZoom
scaleMoves(v) == Abs(v.scale - v.targetScale) > Epsilon
\* the comparison of center.x written without the 0.0001
centerXMoves_exact(v) == v.center.x # v.targetCenter.x
centerXMoves(v) == Abs(v.center.x - v.targetCenter.x) > Epsilon
centerYMoves(v) == Abs(v.center.y - v.targetCenter.y) > Epsilon
\* the effects and the requestAnimationFrame call not guarded by needsRender
needsRender_always(v) == TRUE
needsRender(v) == scaleMoves(v) \/ centerXMoves(v) \/ centerYMoves(v)

\* one call of animateZoom on the view v = [scale, center, targetScale, targetCenter]
animateZoom(v) ==
    [v EXCEPT
       !.scale = IF scaleMoves(v)
                 THEN interpolate(v.scale, v.targetScale, zoomSpeedTimes(v.scale))
                 ELSE v.scale,
       !.center = [x |-> IF centerXMoves(v)
                         THEN interpolate(v.center.x, v.targetCenter.x,
                                          zoomSpeedTimes(Abs(v.center.x - v.targetCenter.x)))
                         ELSE v.center.x,
                   y |-> IF centerYMoves(v)
                         THEN interpolate(v.center.y, v.targetCenter.y,
                                          zoomSpeedTimes(Abs(v.center.y - v.targetCenter.y)))
                         ELSE v.center.y]]

\* MAX_SCALE * Math.pow(10, normalizedValue * Math.log10(MIN_SCALE / MAX_SCALE)), that is
\* MAX_SCALE^(1-p) * MIN_SCALE^p for p = normalizedValue = (value - 1) / 99; evaluated
\* at the slider positions of the model, p = 1/2 and p = 1
zoomScale(tenths) ==
    IF 2 * (tenths - 10) = 990 THEN ISqrt(MIN_SCALE * MAX_SCALE) ELSE MIN_SCALE

\* updateZoom keeping the old centre target: no recentring on the constant
zoomTargets_noRecentre(prog, tenths, c) ==
    IF tenths \div 10 = 1 /\ (prog = "single" \/ tenths = 10)
    THEN [scale |-> defaultMandelbrotScale, center |-> defaultMandelbrotCenter]
    ELSE [scale |-> IF prog = "single" THEN MulDiv(defaultMandelbrotScale, 1, tenths \div 10)
                    ELSE MIN_SCALE,
          center |-> defaultMandelbrotCenter]

\* updateZoom(value, sharedState): the new targets
zoomTargets(prog, tenths, c) ==
    IF prog = "single"
    THEN \* parseInt(slider.value); value === 1; defaultMandelbrotScale / zoomFactor
         IF tenths \div 10 = 1
         THEN [scale |-> defaultMandelbrotScale, center |-> defaultMandelbrotCenter]
         ELSE [scale |-> MulDiv(defaultMandelbrotScale, 1, tenths \div 10), center |-> c]
    ELSE \* parseFloat(slider.value); value === 1; zoomScale
         IF tenths = 10
         THEN [scale |-> defaultMandelbrotScale, center |-> defaultMandelbrotCenter]
         ELSE [scale |-> zoomScale(tenths), center |-> c]

view == [scale |-> mandelbrotScale, center |-> mandelbrotCenter,
         targetScale |-> targetMandelbrotScale, targetCenter |-> targetMandelbrotCenter]

setView(v) ==
    /\ mandelbrotScale' = v.scale
    /\ mandelbrotCenter' = v.center
    /\ targetMandelbrotScale' = v.targetScale
    /\ targetMandelbrotCenter' = v.targetCenter

\* the zoom slider's input listener: updateZoom, which ends by calling animateZoom
ZoomSlider(tenths) ==
    /\ phase = "ready" /\ inputMayArrive
    /\ LET t == zoomTargets(program, tenths, sharedConstant)
           v == [view EXCEPT !.targetScale = t.scale, !.targetCenter = t.center]
           w == animateZoom(v)
       IN  /\ setView(w)
           /\ pending' = IF needsRender(v) THEN pending + 1 ELSE pending
           /\ steps' = IF needsRender(v) THEN 1 ELSE 0
           /\ last' = zoomEffects("zoom", needsRender(v))
           /\ overlay' = IF needsRender(v)
                         THEN [overlay EXCEPT !["mandelbrot"] =
                                 drawMarker("mandelbrot", sharedConstant, w.center, w.scale,
                                            showOrbits)]
                         ELSE overlay
    /\ inputsLeft' = inputsLeft - 1 /\ quiet' = 0
    /\ UNCHANGED <<program, phase, currentC, markers, isDragging, juliaCValue,
                   readout, settingVars, sh, input, output>>

\* the callbacks queued for one frame, run one after the other; each that finds
\* needsRender queues itself again for the next frame
RECURSIVE runCallbacks(_, _)
runCallbacks(r, k) ==
    IF k = 0 THEN r
    ELSE runCallbacks([view |-> animateZoom(r.view),
                       queued |-> r.queued + (IF needsRender(r.view) THEN 1 ELSE 0)],
                      k - 1)

Frame ==
    /\ pending > 0
    /\ LET r == runCallbacks([view |-> view, queued |-> 0], pending)
       IN  /\ setView(r.view)
           /\ pending' = r.queued
           /\ steps' = steps + r.queued
           /\ last' = zoomEffects("frame", r.queued > 0)
           /\ overlay' = IF r.queued > 0
                         THEN [overlay EXCEPT !["mandelbrot"] =
                                 drawMarker("mandelbrot", sharedConstant, r.view.center,
                                            r.view.scale, showOrbits)]
                         ELSE overlay
    /\ quiet' = Min(quiet + 1, InputWindow + 1)
    /\ UNCHANGED <<program, phase, currentC, markers, isDragging, juliaCValue,
                   inputsLeft, readout, settingVars, sh, input, output>>

---------------------------------------------------------------------------
(* Start-up: the DOMContentLoaded handler                                  *)

\* await drawFractal(mandelbrotCanvas, ..., 'mandelbrot', sharedState)
InitMandelbrot ==
    /\ phase = "loading"
    /\ phase' = "mandelbrot"
    /\ last' = [NoEffect("init", "mandelbrot") EXCEPT !.renderedMandelbrot = TRUE,
                                                      !.wroteView = TRUE,
                                                      !.drewMarker = {"mandelbrot"}]
    /\ iterationBuffer' = [iterationBuffer EXCEPT !["mandelbrot"] = DefaultIterations]
    /\ overlay' = [overlay EXCEPT !["mandelbrot"] =
                      drawMarker("mandelbrot", sharedConstant, mandelbrotCenter,
                                 mandelbrotScale, showOrbits)]
    /\ UNCHANGED <<program, currentC, markers, viewVars, isDragging, juliaCValue, pending,
                   steps, quiet, inputsLeft, showOrbits, iterations, readout, settingsLeft,
                   sh, input, output>>

\* initialC taken when the page was loaded, before the awaits of initWebGPU
InitJulia_staleConstant ==
    /\ phase = "mandelbrot"
    /\ phase' = "ready"
    /\ juliaCValue' = ToF32Pair(Origin)
    /\ last' = [NoEffect("init", "julia") EXCEPT !.wroteJuliaC = TRUE, !.renderedJulia = TRUE,
                                                 !.drewMarker = {"julia"}]
    /\ iterationBuffer' = [iterationBuffer EXCEPT !["julia"] = DefaultIterations]
    /\ overlay' = [overlay EXCEPT !["julia"] =
                      drawMarker("julia",
                                 IF program = "single" THEN currentC ELSE markers.julia,
                                 mandelbrotCenter, mandelbrotScale, showOrbits)]
    /\ UNCHANGED <<program, currentC, markers, viewVars, isDragging, pending,
                   steps, quiet, inputsLeft, showOrbits, iterations, readout, settingsLeft,
                   sh, input, output>>

\* await drawFractal(juliaCanvas, ..., 'julia', sharedState), then the slider listeners.
\* While phase = "mandelbrot" this call is suspended in the awaits of initWebGPU, its
\* only awaits; what follows them, from reading currentC for initialC to registering
\* sharedState.juliaBuffers and the listeners, runs without interruption.
InitJulia ==
    /\ phase = "mandelbrot"
    /\ phase' = "ready"
    /\ juliaCValue' = ToF32Pair(sharedConstant)
    /\ last' = [NoEffect("init", "julia") EXCEPT !.wroteJuliaC = TRUE, !.renderedJulia = TRUE,
                                                 !.drewMarker = {"julia"}]
    /\ iterationBuffer' = [iterationBuffer EXCEPT !["julia"] = DefaultIterations]
    /\ overlay' = [overlay EXCEPT !["julia"] =
                      drawMarker("julia",
                                 IF program = "single" THEN currentC ELSE markers.julia,
                                 mandelbrotCenter, mandelbrotScale, showOrbits)]
    /\ UNCHANGED <<program, currentC, markers, viewVars, isDragging, pending,
                   steps, quiet, inputsLeft, showOrbits, iterations, readout, settingsLeft,
                   sh, input, output>>

Idle == [c |-> Origin, z0 |-> Origin, pc |-> "idle"]

UIInit ==
    /\ program \in Programs
    /\ phase = "loading"
    /\ currentC = Origin
    /\ markers = [mandelbrot |-> Origin, julia |-> Origin]
    /\ mandelbrotScale = defaultMandelbrotScale
    /\ mandelbrotCenter = defaultMandelbrotCenter
    /\ targetMandelbrotScale = defaultMandelbrotScale
    /\ targetMandelbrotCenter = defaultMandelbrotCenter
    /\ isDragging = [p \in Panels |-> FALSE]
    /\ juliaCValue = Origin
    /\ pending = 0
    /\ last = NoEffect("none", "mandelbrot")
    /\ steps = 0
    /\ quiet = 0
    /\ inputsLeft = MaxInputs
    /\ showOrbits = FALSE
    /\ iterations = DefaultIterations
    /\ iterationBuffer = [p \in Panels |-> 0]
    /\ overlay = [p \in Panels |-> Blank]
    /\ readout = Origin

Init ==
    /\ UIInit
    /\ settingsLeft = 0
    /\ sh = Idle
    /\ input = <<>>
    /\ output = <<>>

Next ==
    \/ InitMandelbrot
    \/ InitJulia
    \/ \E panel \in Panels, px \in Pixels : MouseDown(panel, px)
    \/ \E panel \in Panels, px \in Pixels : MouseMove(panel, px)
    \/ \E panel \in Panels : MouseUp(panel)
    \/ \E panel \in Panels : MouseLeave(panel)
    \/ \E tenths \in SliderTenths(program) : ZoomSlider(tenths)
    \/ Frame

Spec == Init /\ [][Next]_vars

\* the browser runs the callbacks queued with requestAnimationFrame at its next repaint
FairSpec == Spec /\ WF_vars(Frame)

---------------------------------------------------------------------------
(* The whole page: iteration slider, show-orbits checkbox, failing start-up *)

\* iteration-slider positions tried by the model
IterationValues == {MinIterations, MaxIterations}

\* the listener writing the Mandelbrot panel's buffer only
iterationBufferAfter_mandelbrotOnly(n) == [iterationBuffer EXCEPT !["mandelbrot"] = n]
\* the two writeBuffer(..., new Uint32Array([iterations])) of the iterations listener
iterationBufferAfter(n) == [p \in Panels |-> n]

\* the iterations slider's input listener
IterationsSlider(n) ==
    /\ phase = "ready" /\ settingsLeft > 0 /\ n # iterations
    /\ iterations' = n
    /\ iterationBuffer' = iterationBufferAfter(n)
    /\ last' = [NoEffect("iterations", "mandelbrot") EXCEPT !.renderedMandelbrot = TRUE,
                                                            !.renderedJulia = TRUE]
    /\ overlay' = IF showOrbits
                  THEN [overlay EXCEPT !["mandelbrot"] =
                          drawOrbit(program, sharedConstant, n, mandelbrotCenter,
                                    mandelbrotScale)]
                  ELSE overlay
    /\ settingsLeft' = settingsLeft - 1
    /\ UNCHANGED <<program, phase, currentC, markers, viewVars, isDragging, juliaCValue,
                   pending, steps, quiet, inputsLeft, showOrbits, readout, sh, input, output>>

\* the showOrbits checkbox's change listener
ShowOrbitsChange ==
    /\ phase = "ready" /\ settingsLeft > 0
    /\ showOrbits' = ~showOrbits
    /\ overlay' = [overlay EXCEPT !["mandelbrot"] =
                      IF showOrbits
                      THEN drawMarker("mandelbrot", sharedConstant, mandelbrotCenter,
                                      mandelbrotScale, FALSE)
                      ELSE drawOrbit(program, sharedConstant, iterations, mandelbrotCenter,
                                     mandelbrotScale)]
    /\ last' = NoEffect("showOrbits", "mandelbrot")
    /\ settingsLeft' = settingsLeft - 1
    /\ UNCHANGED <<program, phase, currentC, markers, viewVars, isDragging, juliaCValue,
                   pending, steps, quiet, inputsLeft, iterations, iterationBuffer, readout,
                   sh, input, output>>

\* the ways initWebGPU can fail: !navigator.gpu, !adapter, requestDevice() rejecting
GpuFailures == {"noGpu", "noAdapter", "noDevice"}
\* the failures initWebGPU announces with alert(...)
alerts(reason) == reason \in {"noGpu", "noAdapter"}

\* the DOMContentLoaded handler carrying on after a failed drawFractal
phaseAfterFailure_continues(panel) == IF panel = "mandelbrot" THEN "mandelbrot" ELSE "ready"
\* the throw of initWebGPU ends drawFractal and the DOMContentLoaded handler
phaseAfterFailure(panel) == IF panel = "mandelbrot" THEN "mandelbrotFailed" ELSE "juliaFailed"

\* await drawFractal(...) of `panel` rejecting because its initWebGPU threw
InitFails(panel, reason) ==
    /\ phase = (IF panel = "mandelbrot" THEN "loading" ELSE "mandelbrot")
    /\ phase' = phaseAfterFailure(panel)
    /\ last' = [NoEffect("initFailed", panel) EXCEPT !.alert = alerts(reason),
                                                   !.failure = reason]
    /\ UNCHANGED <<program, currentC, markers, viewVars, isDragging, juliaCValue, pending,
                   steps, quiet, inputsLeft, overlay, readout, settingVars, sh, input, output>>

InitPage ==
    /\ UIInit
    /\ settingsLeft = MaxSettings
    /\ sh = Idle
    /\ input = <<>>
    /\ output = <<>>

NextPage ==
    \/ Next
    \/ \E n \in IterationValues : IterationsSlider(n)
    \/ ShowOrbitsChange
    \/ \E panel \in Panels, reason \in GpuFailures : InitFails(panel, reason)

SpecPage == InitPage /\ [][NextPage]_vars

---------------------------------------------------------------------------
(* Fragment shader fsMain: escape loop and colour                          *)

\* f32 product of two fixed-point numbers
FMul(a, b) == (2 * a * b + FUnit) \div (2 * FUnit)
\* dot(z, z)
dot(z) == FMul(z.x, z.x) + FMul(z.y, z.y)

\* the loop leaving one iteration early
loopBreaks_oneEarly(lane) ==
    lane.iter + 1 >= lane.iterationCount \/ dot(lane.z) > 4 * FUnit
\* the escape test written with >= 4.0
loopBreaks_atRadius(lane) ==
    lane.iter >= lane.iterationCount \/ dot(lane.z) >= 4 * FUnit
\* the escape test comparing with the budget instead of 4.0
loopBreaks_budgetRadius(lane) ==
    lane.iter >= lane.iterationCount \/ dot(lane.z) > lane.iterationCount * FUnit

\* if (iter >= iterationCount || zSquared > 4.0) { break; }
loopBreaks(lane) == lane.iter >= lane.iterationCount \/ dot(lane.z) > 4 * FUnit

\* z = vec2(z.x * z.x - z.y * z.y + c.x, 2.0 * z.x * z.y + c.y); iter = iter + 1u
loopBody(lane, c) ==
    [lane EXCEPT !.z = [x |-> FMul(lane.z.x, lane.z.x) - FMul(lane.z.y, lane.z.y) + c.x,
                        y |-> FMul(2 * lane.z.x, lane.z.y) + c.y],
                 !.iter = lane.iter + 1]

\* fn mod_func(x, y) = x - y * floor(x / y), over rationals
mod_func(x, y) == RSub(x, RMul(y, RInt(RFloor(RDiv(x, y)))))

Black == [r |-> RInt(0), g |-> RInt(0), b |-> RInt(0)]

\* let x_val = c_val * (1.0 - abs(mod_func(hue / 60.0, 2.0) - 1.0))
x_valAt(hue, c_val) ==
    RMul(c_val, RSub(RInt(1), RAbs(RSub(mod_func(RDiv(hue, RInt(60)), RInt(2)), RInt(1)))))

\* the vec3 assigned in the k-th branch of the sector chain, k = 0..5
sectorFormula(k, c_val, x_val) ==
    CASE k = 0 -> [r |-> c_val, g |-> x_val, b |-> RInt(0)]
      [] k = 1 -> [r |-> x_val, g |-> c_val, b |-> RInt(0)]
      [] k = 2 -> [r |-> RInt(0), g |-> c_val, b |-> x_val]
      [] k = 3 -> [r |-> RInt(0), g |-> x_val, b |-> c_val]
      [] k = 4 -> [r |-> x_val, g |-> RInt(0), b |-> c_val]
      [] OTHER -> [r |-> c_val, g |-> RInt(0), b |-> x_val]

\* the third sector written with the fourth sector's channels
hsvSector_thirdSector(hue, c_val, x_val) ==
    IF RLess(hue, RInt(60)) THEN [r |-> c_val, g |-> x_val, b |-> RInt(0)]
    ELSE IF RLess(hue, RInt(120)) THEN [r |-> x_val, g |-> c_val, b |-> RInt(0)]
    ELSE IF RLess(hue, RInt(180)) THEN [r |-> RInt(0), g |-> x_val, b |-> c_val]
    ELSE IF RLess(hue, RInt(240)) THEN [r |-> RInt(0), g |-> x_val, b |-> c_val]
    ELSE IF RLess(hue, RInt(300)) THEN [r |-> x_val, g |-> RInt(0), b |-> c_val]
    ELSE [r |-> c_val, g |-> RInt(0), b |-> x_val]

\* the last sector written (x_val, 0, x_val)
hsvSector_lastSector(hue, c_val, x_val) ==
    IF RLess(hue, RInt(60)) THEN [r |-> c_val, g |-> x_val, b |-> RInt(0)]
    ELSE IF RLess(hue, RInt(120)) THEN [r |-> x_val, g |-> c_val, b |-> RInt(0)]
    ELSE IF RLess(hue, RInt(180)) THEN [r |-> RInt(0), g |-> c_val, b |-> x_val]
    ELSE IF RLess(hue, RInt(240)) THEN [r |-> RInt(0), g |-> x_val, b |-> c_val]
    ELSE IF RLess(hue, RInt(300)) THEN [r |-> x_val, g |-> RInt(0), b |-> c_val]
    ELSE [r |-> x_val, g |-> RInt(0), b |-> x_val]

\* the sector chain "if (hue < 60.0) ... else" of fsMain
hsvSector(hue, c_val, x_val) ==
    IF RLess(hue, RInt(60)) THEN [r |-> c_val, g |-> x_val, b |-> RInt(0)]
    ELSE IF RLess(hue, RInt(120)) THEN [r |-> x_val, g |-> c_val, b |-> RInt(0)]
    ELSE IF RLess(hue, RInt(180)) THEN [r |-> RInt(0), g |-> c_val, b |-> x_val]
    ELSE IF RLess(hue, RInt(240)) THEN [r |-> RInt(0), g |-> x_val, b |-> c_val]
    ELSE IF RLess(hue, RInt(300)) THEN [r |-> x_val, g |-> RInt(0), b |-> c_val]
    ELSE [r |-> c_val, g |-> RInt(0), b |-> x_val]

\* the colour fsMain returns for the loop's iter (alpha is always 1.0)
fsColor(iter, iterationCount) ==
    IF iter = iterationCount THEN Black
    ELSE LET t == RNorm(iter, iterationCount)
             hue == RMul(RInt(360), t)
             saturation == RInt(1)
             value == RInt(1)
             c_val == RMul(value, saturation)
             x_val == RMul(c_val, RSub(RInt(1),
                          RAbs(RSub(mod_func(RDiv(hue, RInt(60)), RInt(2)), RInt(1)))))
             m == RSub(value, c_val)
             rgb == hsvSector(hue, c_val, x_val)
         IN  [r |-> RAdd(rgb.r, m), g |-> RAdd(rgb.g, m), b |-> RAdd(rgb.b, m)]

\* iteration budgets tried: the slider allows MinIterations..MaxIterations
Budgets == (MinIterations..SmallBudgets) \cup {DefaultIterations, MaxIterations}

\* plane points tried as c and as z0, in 1/FUnit
FPoint(xq, yq) == [x |-> (xq * FUnit) \div 8, y |-> (yq * FUnit) \div 8]
ShaderPoints ==
    {FPoint(0, 0), FPoint(16, 0), FPoint(-16, 0), FPoint(8, 0), FPoint(-8, 0),
     FPoint(0, 8), FPoint(2, 0), FPoint(3, 0), FPoint(-6, 1), FPoint(24, 0),
     FPoint(-8, 8), FPoint(3, 4), FPoint(-1, 6)}
ShaderStarts == {FPoint(0, 0), FPoint(4, 4), FPoint(16, 0), FPoint(17, 8), FPoint(-3, 5)}

\* var iter = 0u, z as set from the mode, the uniform iterationCount
newLane(z0, n) == [iterationCount |-> n, z |-> z0, iter |-> 0]

\* two invocations of fsMain with the same c and z0 and two iteration budgets
ShaderInit ==
    \E c \in ShaderPoints, z0 \in ShaderStarts, n1 \in Budgets, n2 \in Budgets :
        /\ n1 <= n2
        /\ sh = [pc |-> "loop", c |-> c, z0 |-> z0,
                 lanes |-> <<newLane(z0, n1), newLane(z0, n2)>>,
                 rgb |-> <<Black, Black>>]

\* one pass through "loop { ... }" in every invocation that has not left it
ShaderStep ==
    /\ sh.pc = "loop"
    /\ \E i \in 1..2 : ~loopBreaks(sh.lanes[i])
    /\ sh' = [sh EXCEPT !.lanes = [i \in 1..2 |->
                 IF loopBreaks(sh.lanes[i]) THEN sh.lanes[i] ELSE loopBody(sh.lanes[i], sh.c)]]
    /\ UNCHANGED <<uiVars, input, output>>

\* the code after the loop: "if (iter == iterationCount) ... else ..."
ShaderReturn ==
    /\ sh.pc = "loop"
    /\ \A i \in 1..2 : loopBreaks(sh.lanes[i])
    /\ sh' = [sh EXCEPT !.pc = "done",
                        !.rgb = [i \in 1..2 |->
                                   fsColor(sh.lanes[i].iter, sh.lanes[i].iterationCount)]]
    /\ UNCHANGED <<uiVars, input, output>>

Parked == UIInit /\ settingsLeft = 0 /\ program = "single"

InitShader == Parked /\ ShaderInit /\ input = <<>> /\ output = <<>>
NextShader == ShaderStep \/ ShaderReturn
SpecShader == InitShader /\ [][NextShader]_vars

---------------------------------------------------------------------------
(* The colour map alone                                                    *)

InitColor ==
    /\ Parked /\ sh = Idle /\ output = <<>>
    /\ \E n \in Budgets \cup (1..24), iter \in 0..MaxIterations :
          iter <= n /\ input = [iter |-> iter, iterationCount |-> n]

ApplyColor ==
    /\ output = <<>> /\ input # <<>>
    /\ output' = <<fsColor(input.iter, input.iterationCount)>>
    /\ UNCHANGED <<uiVars, sh, input>>

SpecColor == InitColor /\ [][ApplyColor]_vars

---------------------------------------------------------------------------
(* The coordinate round trip alone                                         *)

MapScales == {<<3, 2>>, <<3, 4>>, <<3, 200>>, <<1, 3>>, <<1, 10000>>, <<1, 1000000>>}
MapCentersX == {<<-1, 2>>, <<0, 1>>, <<-3, 4>>, <<7, 5>>}
MapCentersY == {<<0, 1>>, <<1, 10>>, <<-2, 3>>}
MapPixelsX == {<<0, 1>>, <<1, 1>>, <<400, 1>>, <<1201, 2>>, <<799, 1>>, <<800, 1>>}
MapPixelsY == {<<0, 1>>, <<1, 1>>, <<300, 1>>, <<901, 4>>, <<600, 1>>}

InitMap ==
    /\ Parked /\ sh = Idle /\ output = <<>>
    /\ \E s \in MapScales, cx \in MapCentersX, cy \in MapCentersY,
          px \in MapPixelsX, py \in MapPixelsY :
          input = [scale |-> s, center |-> [x |-> cx, y |-> cy], mouseX |-> px, mouseY |-> py]

\* the drag handler's formula, then toCanvasCoords with the same view
ApplyRoundTrip ==
    /\ output = <<>> /\ input # <<>>
    /\ LET pt == planeOfPixelR(input.mouseX, input.mouseY, canvasWidth, canvasHeight,
                               input.center, input.scale, aspectRatio)
       IN  output' = <<pt, toCanvasCoordsR(pt, canvasWidth, canvasHeight,
                                           input.center, input.scale, aspectRatio)>>
    /\ UNCHANGED <<uiVars, sh, input>>

SpecMap == InitMap /\ [][ApplyRoundTrip]_vars

---------------------------------------------------------------------------
(* calculateOrbit alone                                                    *)

\* the loop test written i <= maxIter
orbitContinues_inclusive(i, maxIter) == i <= maxIter
\* for (let i = 0; i < maxIter; i++)
orbitContinues(i, maxIter) == i < maxIter

\* double product of two fixed-point numbers
DMul(a, b) == (2 * a * b + DUnit) \div (2 * DUnit)

\* x * x + y * y, in 1/DUnit
normSquared(p) == DMul(p.x, p.x) + DMul(p.y, p.y)

\* the escape test written >= 4
orbitEscapes_atRadius(p) == normSquared(p) >= 4 * DUnit
\* if ((x * x + y * y) > 4) { break; }
orbitEscapes(p) == normSquared(p) > 4 * DUnit

\* the constants tried, in eighths: both grids hold them exactly
TracePoints ==
    {<<0, 0>>, <<16, 0>>, <<-16, 0>>, <<8, 0>>, <<-8, 0>>, <<0, 8>>, <<2, 0>>, <<3, 0>>,
     <<-6, 1>>, <<24, 0>>, <<-8, 8>>, <<3, 4>>, <<-1, 6>>, <<-3, 5>>}
\* a point given in eighths as a double, in 1/DUnit
DPoint(xq, yq) == [x |-> (xq * DUnit) \div 8, y |-> (yq * DUnit) \div 8]

\* const orbit = [{ x: 0, y: 0 }]; let x = 0; let y = 0; let i = 0
newOrbit == [orbit |-> <<Origin>>, x |-> 0, y |-> 0, i |-> 0, pc |-> "loop"]

\* the escape test made on the point the pass started from
orbitPass_testsOldPoint(o, x0, y0) ==
    LET xtemp == DMul(o.x, o.x) - DMul(o.y, o.y) + x0
        ytemp == DMul(2 * o.x, o.y) + y0
        z == [x |-> xtemp, y |-> ytemp]
    IN  [orbit |-> Append(o.orbit, z), x |-> xtemp, y |-> ytemp,
         i |-> IF orbitEscapes(o) THEN o.i ELSE o.i + 1,
         pc |-> IF orbitEscapes(o) THEN "done" ELSE "loop"]

\* one pass of the loop body: xtemp, ytemp, push, escape test, i++
orbitPass(o, x0, y0) ==
    LET xtemp == DMul(o.x, o.x) - DMul(o.y, o.y) + x0
        ytemp == DMul(2 * o.x, o.y) + y0
        z == [x |-> xtemp, y |-> ytemp]
    IN  [orbit |-> Append(o.orbit, z), x |-> xtemp, y |-> ytemp,
         i |-> IF orbitEscapes(z) THEN o.i ELSE o.i + 1,
         pc |-> IF orbitEscapes(z) THEN "done" ELSE "loop"]

InitOrbit ==
    /\ Parked /\ sh = Idle
    /\ \E q \in TracePoints, n \in Budgets :
          input = [x0 |-> DPoint(q[1], q[2]).x, y0 |-> DPoint(q[1], q[2]).y, maxIter |-> n]
    /\ output = newOrbit

OrbitStep ==
    /\ output.pc = "loop" /\ orbitContinues(output.i, input.maxIter)
    /\ output' = orbitPass(output, input.x0, input.y0)
    /\ UNCHANGED <<uiVars, sh, input>>

\* the loop test fails: return orbit
OrbitReturn ==
    /\ output.pc = "loop" /\ ~orbitContinues(output.i, input.maxIter)
    /\ output' = [output EXCEPT !.pc = "done"]
    /\ UNCHANGED <<uiVars, sh, input>>

NextOrbit == OrbitStep \/ OrbitReturn
SpecOrbit == InitOrbit /\ [][NextOrbit]_vars

---------------------------------------------------------------------------
(* calculateOrbit beside the escape loop of fsMain                         *)

\* calculateOrbit(c.x, c.y, maxIter) and fsMain in Mandelbrot mode (z = (0,0)) for the
\* same c and the same budget; `agreed` records that the two escape tests have given
\* the same answer after every pass both loops made
InitTrace ==
    /\ Parked /\ sh = Idle
    /\ \E q \in TracePoints, n \in Budgets : input = [c |-> q, maxIter |-> n]
    /\ output = [lane |-> newLane(Origin, input.maxIter), trace |-> newOrbit,
                 agreed |-> TRUE, pc |-> "loops"]

\* calculateOrbit has not returned
traceRuns(o, maxIter) == o.pc = "loop" /\ orbitContinues(o.i, maxIter)

\* one pass of each loop that is still running
TraceStep ==
    /\ output.pc = "loops"
    /\ LET laneRuns == ~loopBreaks(output.lane)
           orbitRuns == traceRuns(output.trace, input.maxIter)
           lane == IF laneRuns
                   THEN loopBody(output.lane, FPoint(input.c[1], input.c[2]))
                   ELSE output.lane
           trace == IF orbitRuns
                    THEN orbitPass(output.trace, DPoint(input.c[1], input.c[2]).x,
                                   DPoint(input.c[1], input.c[2]).y)
                    ELSE output.trace
       IN  /\ laneRuns \/ orbitRuns
           /\ output' = [lane |-> lane, trace |-> trace,
                         agreed |-> /\ output.agreed
                                    /\ (laneRuns /\ orbitRuns) =>
                                          ((dot(lane.z) > 4 * FUnit) =
                                             (normSquared(trace) > 4 * DUnit)),
                         pc |-> "loops"]
    /\ UNCHANGED <<uiVars, sh, input>>

\* both loops have ended
TraceReturn ==
    /\ output.pc = "loops"
    /\ loopBreaks(output.lane) /\ ~traceRuns(output.trace, input.maxIter)
    /\ output' = [output EXCEPT !.pc = "done"]
    /\ UNCHANGED <<uiVars, sh, input>>

NextTrace == TraceStep \/ TraceReturn
SpecTrace == InitTrace /\ [][NextTrace]_vars

---------------------------------------------------------------------------
(* updateZoom's targets alone                                              *)

\* every position of the zoom slider of Mandelbrot.js (integers 1..100); for part_002
\* the positions whose power of ten the model evaluates
SliderPositions(prog) ==
    IF prog = "single" THEN {10 * k : k \in 1..100} ELSE SliderTenths(prog)

\* values of the shared constant tried, in 1/Unit
Constants ==
    {Origin, [x |-> -(3 * Unit) \div 4, y |-> Unit \div 10], [x |-> Unit \div 4, y |-> -Unit]}

InitZoomTarget ==
    /\ Parked /\ sh = Idle /\ output = <<>>
    /\ \E prog \in Programs, c \in Constants :
         \E v1 \in SliderPositions(prog), v2 \in SliderPositions(prog) :
            v1 < v2 /\ input = [prog |-> prog, c |-> c, v1 |-> v1, v2 |-> v2]

\* updateZoom called with each of the two slider values
ApplyZoomTarget ==
    /\ output = <<>> /\ input # <<>>
    /\ output' = <<zoomTargets(input.prog, input.v1, input.c),
                   zoomTargets(input.prog, input.v2, input.c)>>
    /\ UNCHANGED <<uiVars, sh, input>>

SpecZoomTarget == InitZoomTarget /\ [][ApplyZoomTarget]_vars

---------------------------------------------------------------------------
(* Properties                                                              *)

\* C1 (SpecMap): for every view with scale > 0 and every pixel inside the canvas,
\* the drag handler's pixel-to-plane formula followed by toCanvasCoords with the
\* same view gives the pixel back.
RoundTrip ==
    output # <<>> => output[2] = [x |-> input.mouseX, y |-> input.mouseY]
RoundTripWitness ==
    /\ output # <<>>
    /\ input.scale = <<1, 10000>> /\ input.center.x = <<7, 5>>
    /\ input.mouseX = <<1201, 2>> /\ input.mouseY = <<901, 4>>
    /\ output[1].x # input.center.x
    /\ output[2].x = <<1201, 2>>

\* the most animateZoom calls one target takes: log(MAX_SCALE / MIN_SCALE) / log(1.05)
StepBound == 300

converged == ~needsRender(view)
retargeted == <<targetMandelbrotScale, targetMandelbrotCenter>>' #
              <<targetMandelbrotScale, targetMandelbrotCenter>>
inputStep(evs, panel) ==
    inputsLeft' = inputsLeft - 1 /\ last'.ev \in evs /\ last'.panel = panel
dragStep(panel) ==
    \/ inputStep({"mousedown"}, panel)
    \/ inputStep({"mousemove"}, panel) /\ isDragging[panel]

\* C2 (Spec): for a fixed target the animateZoom calls that move the view are at most
\* StepBound; the callback chain ends only in a view whose scale, center.x and
\* center.y are each within 0.0001 of the target; and from such a view a step that
\* keeps the target changes none of scale, center.x, center.y.
ZoomConverges ==
    /\ [](/\ steps <= StepBound
          /\ (phase = "ready" /\ pending = 0) => converged
          /\ converged =>
                /\ Abs(mandelbrotScale - targetMandelbrotScale) <= Epsilon
                /\ Abs(mandelbrotCenter.x - targetMandelbrotCenter.x) <= Epsilon
                /\ Abs(mandelbrotCenter.y - targetMandelbrotCenter.y) <= Epsilon)
    /\ [][(converged /\ ~retargeted) =>
             /\ UNCHANGED <<mandelbrotScale, mandelbrotCenter>>
             /\ pending' = 0 /\ converged']_vars
ZoomConvergesWitness ==
    /\ last.ev = "frame" /\ pending = 0 /\ converged
    /\ steps >= 150
    /\ mandelbrotScale # targetMandelbrotScale
    /\ mandelbrotCenter # targetMandelbrotCenter

\* 0.01 * defaultMandelbrotScale for Mandelbrot.js, whose slider ends at 100
scaleFloor == IF program = "single" THEN MulDiv(defaultMandelbrotScale, 1, 100)
              ELSE MIN_SCALE

between(a, x, b) == (a <= x /\ x <= b) \/ (b <= x /\ x <= a)

\* C3 (Spec): mandelbrotScale and targetMandelbrotScale are > 0 and within
\* [MIN_SCALE, MAX_SCALE] (within [defaultMandelbrotScale / 100, defaultMandelbrotScale]
\* for Mandelbrot.js), and no step moves mandelbrotScale past its target.
ScaleStaysInRange ==
    /\ [](/\ mandelbrotScale > 0 /\ targetMandelbrotScale > 0
          /\ scaleFloor <= mandelbrotScale /\ mandelbrotScale <= MAX_SCALE
          /\ scaleFloor <= targetMandelbrotScale /\ targetMandelbrotScale <= MAX_SCALE)
    /\ [][between(mandelbrotScale, mandelbrotScale', targetMandelbrotScale')]_vars
ScaleStaysInRangeWitness ==
    /\ program = "markers" /\ last.ev = "frame"
    /\ targetMandelbrotScale = MIN_SCALE
    /\ mandelbrotScale < 2 * Epsilon /\ mandelbrotScale > MIN_SCALE
    /\ pending = 0

\* C4 (Spec): once both panels are initialised, a mousedown on the Mandelbrot panel,
\* and a mousemove on it while dragging, writes the plane point of the pointer to the
\* Julia c uniform and renders Julia in the same event; and in every state the Julia
\* c uniform holds (as f32) the shared constant.
JuliaFollowsMandelbrot ==
    /\ [](phase = "ready" => juliaCValue = ToF32Pair(sharedConstant))
    /\ [][(phase = "ready" /\ dragStep("mandelbrot")) =>
             /\ last'.wroteJuliaC /\ last'.renderedJulia
             /\ \E px \in Pixels :
                   last'.point = planeOfPixel(px[1], px[2], mandelbrotCenter, mandelbrotScale)
             /\ sharedConstant' = last'.point
             /\ juliaCValue' = ToF32Pair(last'.point)]_vars
JuliaFollowsMandelbrotWitness ==
    /\ phase = "ready" /\ last.ev = "mousemove" /\ last.panel = "mandelbrot"
    /\ isDragging["mandelbrot"] /\ last.wroteJuliaC /\ last.renderedJulia
    /\ juliaCValue = ToF32Pair(last.point) /\ juliaCValue # Origin
    /\ sharedConstant = last.point

\* C5 as stated (Spec): in Mandelbrot.js a drag on the Julia panel leaves currentC and
\* the Julia c uniform as they were.
JuliaDragKeepsConstant ==
    [][(program = "single" /\ dragStep("julia")) =>
          UNCHANGED <<currentC, juliaCValue>>]_vars

\* C5 as amended (Spec): in Mandelbrot.js a drag on the Julia panel (a mousedown, or a
\* mousemove while dragging) sets currentC to the plane point computed from the pointer
\* with the Mandelbrot view, writes it to the Julia c uniform and renders Julia, as a
\* drag on the Mandelbrot panel does.
JuliaDragSetsConstant ==
    [][(program = "single" /\ dragStep("julia")) =>
          /\ \E px \in Pixels :
                currentC' = planeOfPixel(px[1], px[2], mandelbrotCenter, mandelbrotScale)
          /\ juliaCValue' = ToF32Pair(currentC')
          /\ last'.point = currentC' /\ last'.wroteJuliaC /\ last'.renderedJulia]_vars
JuliaDragSetsConstantWitness ==
    /\ program = "single" /\ last.panel = "julia" /\ last.ev = "mousemove"
    /\ isDragging["julia"] /\ last.wroteJuliaC
    /\ currentC = last.point /\ currentC # Origin
    /\ juliaCValue = ToF32Pair(currentC)

\* C6 (Spec): in the two-marker program the Julia c uniform holds (as f32)
\* markers.mandelbrot in every state after start-up, and a drag on the Julia panel
\* changes markers.julia alone: markers.mandelbrot, the Julia c uniform and the view
\* stay, nothing is written to the uniform and Julia is not rendered.
TwoMarkers ==
    /\ []((program = "markers" /\ phase = "ready") =>
              juliaCValue = ToF32Pair(markers.mandelbrot))
    /\ [][(program = "markers" /\ dragStep("julia")) =>
             /\ markers'.julia = last'.point
             /\ markers'.mandelbrot = markers.mandelbrot
             /\ UNCHANGED <<juliaCValue, currentC, viewVars, pending>>
             /\ ~last'.wroteJuliaC /\ ~last'.renderedJulia]_vars
TwoMarkersWitness ==
    /\ program = "markers" /\ last.panel = "julia" /\ last.ev = "mousedown"
    /\ isDragging["julia"] /\ ~last.wroteJuliaC
    /\ markers.julia = last.point /\ markers.julia # markers.mandelbrot
    /\ markers.mandelbrot # Origin
    /\ juliaCValue = ToF32Pair(markers.mandelbrot)

laneDone(i) == sh.pc = "done" /\ sh.lanes[i].iter = sh.lanes[i].iterationCount
atOrigin == sh.c = FPoint(0, 0) /\ sh.z0 = FPoint(0, 0)
atTwo == sh.c = FPoint(16, 0) /\ sh.z0 = FPoint(0, 0)

\* C7 (SpecShader): with c = (0,0) and z0 = (0,0) every iterate is (0,0), so |z|^2
\* never exceeds 4; the escape loop ends with iter = iterationCount for every budget
\* and the pixel is coloured as inside.
OriginNeverEscapes ==
    atOrigin => \A i \in 1..2 :
        /\ sh.lanes[i].z = FPoint(0, 0)
        /\ dot(sh.lanes[i].z) = 0 /\ sh.lanes[i].iter <= sh.lanes[i].iterationCount
        /\ sh.pc = "done" => /\ sh.lanes[i].iter = sh.lanes[i].iterationCount
                             /\ sh.rgb[i] = Black
OriginWitness ==
    /\ sh.pc = "done" /\ atOrigin
    /\ sh.lanes[1].iterationCount = MinIterations
    /\ sh.lanes[2].iterationCount = MaxIterations
    /\ sh.lanes[2].iter = MaxIterations

\* C8 as stated (SpecShader): with c = (2,0), z0 = (0,0), for every budget that
\* allows iteration 2 the count is 2 and the point is reported as escaped.
KnownEscapeAnyBudget ==
    (sh.pc = "done" /\ atTwo) =>
        \A i \in 1..2 : sh.lanes[i].iterationCount >= 2 =>
            /\ sh.lanes[i].iter = 2
            /\ sh.lanes[i].iter # sh.lanes[i].iterationCount

\* C8 as amended (SpecShader): with c = (2,0), z0 = (0,0) the loop does not stop at
\* z1 = (2,0), where |z1|^2 = 4 is not > 4, and stops at z2 = (6,0); the count is 2
\* for every budget >= 2, and the point is reported as escaped (iter # budget,
\* a colour other than black) for every budget >= 3.
KnownEscape ==
    atTwo => \A i \in 1..2 :
        LET lane == sh.lanes[i] IN
        /\ (lane.iter = 1 /\ lane.iterationCount >= 2) =>
              /\ lane.z = FPoint(16, 0) /\ dot(lane.z) = 4 * FUnit
              /\ sh.pc = "loop"
        /\ lane.iter = 2 => lane.z = FPoint(48, 0) /\ dot(lane.z) = 36 * FUnit
        /\ lane.iter <= 2
        /\ sh.pc = "done" =>
              /\ lane.iterationCount >= 2 => lane.iter = 2
              /\ lane.iterationCount >= 3 => lane.iter # lane.iterationCount
              /\ lane.iterationCount >= 3 => sh.rgb[i] # Black
              /\ lane.iterationCount = 2 => sh.rgb[i] = Black
KnownEscapeWitness ==
    /\ sh.pc = "done" /\ atTwo
    /\ sh.lanes[1].iterationCount = 2 /\ sh.lanes[1].iter = 2
    /\ sh.lanes[2].iterationCount = MaxIterations /\ sh.lanes[2].iter = 2

\* C9 (SpecShader): for the same c and z0 and budgets n1 <= n2 the count under n1 is
\* at most the count under n2, and a point that escapes under n1 (count < n1) has the
\* same count under n2.
EscapeMonotone ==
    sh.pc = "done" =>
        /\ sh.lanes[1].iter <= sh.lanes[2].iter
        /\ sh.lanes[1].iter < sh.lanes[1].iterationCount =>
              sh.lanes[2].iter = sh.lanes[1].iter
EscapeMonotoneWitness ==
    /\ sh.pc = "done"
    /\ sh.lanes[1].iterationCount < sh.lanes[2].iterationCount
    /\ sh.lanes[1].iter >= 4
    /\ sh.lanes[1].iter < sh.lanes[1].iterationCount
    /\ sh.lanes[2].iter = sh.lanes[1].iter

unitInterval(q) == RLeq(RInt(0), q) /\ RLeq(q, RInt(1))

boundaryOf(iter, iterationCount) ==
    IF iter < iterationCount /\ iter > 0 /\ (6 * iter) % iterationCount = 0
    THEN (6 * iter) \div iterationCount ELSE 0

\* C11 (SpecColor): when hue is an exact multiple 60 * k of 60 in [60, 300], the colour
\* returned (the code takes sector k, since hue < 60 * k is false) equals what the
\* formula of sector k - 1 gives at that hue; no channel jumps at a boundary.
SectorBoundariesContinuous ==
    (output # <<>> /\ boundaryOf(input.iter, input.iterationCount) > 0) =>
        LET k == boundaryOf(input.iter, input.iterationCount)
            x_val == x_valAt(RInt(60 * k), RInt(1))
        IN  /\ k \in 1..5
            /\ output[1] = sectorFormula(k, RInt(1), x_val)
            /\ output[1] = sectorFormula(k - 1, RInt(1), x_val)
SectorBoundaryWitness ==
    /\ output # <<>>
    /\ input.iter = 8 /\ input.iterationCount = 24
    /\ boundaryOf(input.iter, input.iterationCount) = 2
    /\ output[1] = [r |-> RInt(0), g |-> RInt(1), b |-> RInt(0)]

orbitOfTwo == input.x0 = 2 * DUnit /\ input.y0 = 0
twoPoints == <<Origin, [x |-> 2 * DUnit, y |-> 0]>>
threePoints == <<Origin, [x |-> 2 * DUnit, y |-> 0], [x |-> 6 * DUnit, y |-> 0]>>

\* C12 as stated (SpecOrbit): calculateOrbit(2, 0, maxIter) returns exactly the three
\* points (0,0), (2,0), (6,0) for every maxIter in 1..1000.
OrbitOfTwoAnyBudget ==
    (output.pc = "done" /\ orbitOfTwo) => output.orbit = threePoints

\* C12 as amended (SpecOrbit): calculateOrbit(2, 0, maxIter) returns exactly the three
\* points (0,0), (2,0), (6,0) for every maxIter >= 2, and the two points (0,0), (2,0)
\* for maxIter = 1, where the loop ends before z2 is computed.
OrbitOfTwo ==
    (output.pc = "done" /\ orbitOfTwo) =>
        /\ input.maxIter >= 2 => output.orbit = threePoints
        /\ input.maxIter = 1 => output.orbit = twoPoints
OrbitOfTwoWitness ==
    /\ output.pc = "done" /\ orbitOfTwo
    /\ input.maxIter = MaxIterations /\ output.orbit = threePoints

\* C13 (SpecOrbit): the orbit starts at (0,0); its length is between 2 and maxIter + 1
\* when calculateOrbit returns; every point but the last has |z|^2 <= 4; and the
\* length is below maxIter + 1 only if the last point has |z|^2 > 4.
OrbitShape ==
    LET orbit == output.orbit
        n == Len(orbit)
    IN  /\ orbit[1] = Origin
        /\ n <= input.maxIter + 1
        /\ \A k \in 1..(n - 1) : normSquared(orbit[k]) <= 4 * DUnit
        /\ output.pc = "done" =>
              /\ n >= 2
              /\ n < input.maxIter + 1 => normSquared(orbit[n]) > 4 * DUnit
OrbitShapeWitness ==
    /\ output.pc = "done"
    /\ Len(output.orbit) >= 5 /\ Len(output.orbit) < input.maxIter + 1
    /\ normSquared(output.orbit[Len(output.orbit)]) > 4 * DUnit

defaultTargets == [scale |-> defaultMandelbrotScale, center |-> defaultMandelbrotCenter]
zoomedTargetOk(v, t) ==
    IF v = 10 THEN t = defaultTargets
    ELSE /\ t.center = input.c
         /\ MIN_SCALE <= t.scale /\ t.scale < MAX_SCALE

\* C14 (SpecZoomTarget): updateZoom(1) sets the targets to the default scale 1.5 and
\* centre (-0.5, 0); updateZoom(v) for v in (1, 100] sets targetCenter to the shared
\* constant and targetScale to a value in [MIN_SCALE, MAX_SCALE), and of two slider
\* values the larger gives the strictly smaller targetScale.
ZoomTargetSelection ==
    output # <<>> =>
        /\ zoomedTargetOk(input.v1, output[1])
        /\ zoomedTargetOk(input.v2, output[2])
        /\ output[1].scale > output[2].scale
        /\ defaultTargets = [scale |-> (3 * Unit) \div 2,
                             center |-> [x |-> -(Unit \div 2), y |-> 0]]
ZoomTargetWitness ==
    /\ output # <<>>
    /\ input.prog = "markers" /\ input.v1 = 505 /\ input.v2 = 1000
    /\ input.c # Origin /\ input.c # defaultMandelbrotCenter
    /\ output[1].center = input.c /\ output[2].scale = MIN_SCALE
    /\ output[1].scale > MIN_SCALE

animationStopped == phase = "ready" /\ last.ev = "frame" /\ pending = 0

\* C15 (Spec): in the two-marker program, once the slider has been set to 100 (the
\* target scale is MIN_SCALE) and the animation has stopped rescheduling,
\* mandelbrotScale equals MIN_SCALE.
DeepestZoomReached ==
    (program = "markers" /\ targetMandelbrotScale = MIN_SCALE /\ animationStopped) =>
        mandelbrotScale = MIN_SCALE

\* what one animateZoom call does to a quantity at `current` with step `speed`
stepOutcome(moves, current, target, speed, after) ==
    IF ~moves THEN after = current
    ELSE IF speed >= Abs(current - target) THEN after = target
    ELSE after # target /\ Abs(after - current) = speed

\* the step sizes animateZoom computes
scaleStep(v) == zoomSpeedTimes(v.scale)
centerXStep(v) == zoomSpeedTimes(Abs(v.center.x - v.targetCenter.x))
centerYStep(v) == zoomSpeedTimes(Abs(v.center.y - v.targetCenter.y))

\* C16 as stated (Spec): in an animateZoom step, a quantity whose computed step is
\* below 0.0001 is set exactly to its target.
SmallStepSnaps ==
    LET w == animateZoom(view) IN
    /\ (scaleMoves(view) /\ scaleStep(view) < Epsilon) => w.scale = view.targetScale
    /\ (centerXMoves(view) /\ centerXStep(view) < Epsilon) =>
          w.center.x = view.targetCenter.x
    /\ (centerYMoves(view) /\ centerYStep(view) < Epsilon) =>
          w.center.y = view.targetCenter.y

\* C16 as amended (Spec): in an animateZoom step a quantity within 0.0001 of its
\* target is left as it is; a quantity farther away is set exactly to its target only
\* if its step is at least the remaining distance (which never holds for center.x and
\* center.y, whose step is 0.05 of the distance), and otherwise moves by its step,
\* however small, without reaching the target.
StepSnapsOnlyAtTarget ==
    LET w == animateZoom(view) IN
    /\ stepOutcome(scaleMoves(view), view.scale, view.targetScale, scaleStep(view), w.scale)
    /\ stepOutcome(centerXMoves(view), view.center.x, view.targetCenter.x,
                   centerXStep(view), w.center.x)
    /\ stepOutcome(centerYMoves(view), view.center.y, view.targetCenter.y,
                   centerYStep(view), w.center.y)
    /\ centerXMoves(view) => w.center.x # view.targetCenter.x
    /\ centerYMoves(view) => w.center.y # view.targetCenter.y
StepSnapsWitness ==
    /\ scaleMoves(view) /\ scaleStep(view) < Epsilon
    /\ animateZoom(view).scale # targetMandelbrotScale
    /\ centerXMoves(view) /\ centerXStep(view) < Epsilon
    /\ animateZoom(view).center.x # targetMandelbrotCenter.x
    /\ pending > 0

\* C17 (Spec): whatever zoom-slider events arrive, at most one animateZoom callback
\* is pending in requestAnimationFrame, so a frame advances the view by one
\* interpolation step.
OneCallbackPending == pending <= 1

\* scale, center.x and center.y of v are each within 0.0001 of their targets
idleView(v) ==
    /\ Abs(v.scale - v.targetScale) <= Epsilon
    /\ Abs(v.center.x - v.targetCenter.x) <= Epsilon
    /\ Abs(v.center.y - v.targetCenter.y) <= Epsilon
noZoomEffects(l) == ~l.wroteView /\ ~l.renderedMandelbrot /\ l.drewMarker = {}
\* the view the animateZoom call of updateZoom starts from: the new targets
retargetedView == [view EXCEPT !.targetScale = targetMandelbrotScale',
                               !.targetCenter = targetMandelbrotCenter']

\* C18 (FairSpec): animateZoom calls that find scale, center.x and center.y within
\* 0.0001 of their targets write no uniform, render nothing, queue no callback and
\* leave the view; the pending callbacks leave zero only by a zoom-slider event; and
\* eventually the number of pending callbacks is zero for good.
NoFramesOnceIdle ==
    /\ [][(last'.ev = "frame" /\ idleView(view)) =>
             /\ noZoomEffects(last') /\ pending' = 0
             /\ UNCHANGED viewVars]_vars
    /\ [][(last'.ev = "zoom" /\ inputsLeft' # inputsLeft /\ idleView(retargetedView)) =>
             /\ noZoomEffects(last') /\ pending' = pending
             /\ UNCHANGED <<mandelbrotScale, mandelbrotCenter>>]_vars
    /\ [][(pending = 0 /\ pending' > 0) => last'.ev = "zoom"]_vars
    /\ <>[](pending = 0)
NoFramesOnceIdleWitness ==
    /\ last.ev = "frame" /\ pending = 0 /\ steps > 0
    /\ noZoomEffects(last) /\ idleView(view)
    /\ inputsLeft > 0

zoomStep == last'.ev = "frame" \/ (last'.ev = "zoom" /\ inputsLeft' # inputsLeft)
mouseStep ==
    /\ inputsLeft' # inputsLeft
    /\ last'.ev \in {"mousedown", "mousemove", "mouseup", "mouseleave"}

\* C19 (Spec): a step of animateZoom (from the slider's updateZoom or from a frame)
\* writes no uniform but the Mandelbrot panel's scale and centre, renders no panel but
\* Mandelbrot and redraws no overlay but the Mandelbrot marker's; whenever it moves
\* the view it does all three; the shared constant (currentC, markers) and the Julia c
\* uniform stay as they are, Julia is not rendered and its overlay is not redrawn.
ZoomStepFrame ==
    [][zoomStep =>
          /\ UNCHANGED <<currentC, markers, juliaCValue, isDragging>>
          /\ ~last'.wroteJuliaC /\ ~last'.renderedJulia
          /\ last'.drewMarker \subseteq {"mandelbrot"}
          /\ <<mandelbrotScale, mandelbrotCenter>>' # <<mandelbrotScale, mandelbrotCenter>> =>
                /\ last'.wroteView /\ last'.renderedMandelbrot
                /\ last'.drewMarker = {"mandelbrot"}]_vars
ZoomStepFrameWitness ==
    /\ last.ev = "frame" /\ last.wroteView /\ last.renderedMandelbrot
    /\ last.drewMarker = {"mandelbrot"}
    /\ sharedConstant # Origin /\ juliaCValue = ToF32Pair(sharedConstant)
    /\ mandelbrotCenter # defaultMandelbrotCenter

\* C20 (Spec): mousedown, mousemove, mouseup and mouseleave on either panel leave
\* mandelbrotScale, mandelbrotCenter, targetMandelbrotScale and targetMandelbrotCenter
\* unchanged; the view changes only in a zoom-slider event or an animation frame.
DragFrame ==
    /\ [][mouseStep => UNCHANGED viewVars]_vars
    /\ [][viewVars' # viewVars => zoomStep]_vars
DragFrameWitness ==
    /\ last.ev = "mousedown" /\ isDragging[last.panel] /\ last.point # Origin
    /\ pending > 0 /\ mandelbrotScale # targetMandelbrotScale
    /\ mandelbrotScale # defaultMandelbrotScale
    /\ sharedConstant = last.point

\* the Julia panel's view: the shader maps its fragments with x = coords.x * 1.5 * 1.333,
\* y = coords.y * 1.5, a window of scale 1.5 about the origin
juliaScale == (3 * Unit) \div 2
juliaCenter == Origin

\* C21 (Spec): a drag on the Julia panel hands on the plane point of the pointer's pixel
\* under the Julia panel's own view, the fixed window of scale 1.5 about (0,0), whatever
\* the scale and the centre of the Mandelbrot panel are.
JuliaDragUsesJuliaView ==
    [][dragStep("julia") =>
         \E px \in Pixels :
            last'.point = planeOfPixel(px[1], px[2], juliaCenter, juliaScale)]_vars

\* the orbit the Mandelbrot overlay has to show: calculateOrbit of the constant and the
\* iteration slider's value, after the step
currentOrbit == <<sharedConstant.x, sharedConstant.y, iterations>>'
\* a step that updated the Mandelbrot marker: a drag or an animateZoom call redrew it
markerUpdated == "mandelbrot" \in last'.drewMarker /\ last'.ev # "init"

\* C22 (SpecPage): while the show-orbits box is checked, every step that updates the
\* Mandelbrot marker (a drag, a rendering animateZoom call) and every iteration-slider
\* event leaves on the Mandelbrot overlay the orbit of the current constant for the
\* current iteration budget.
OrbitRefreshed ==
    [][(showOrbits' /\ (markerUpdated \/ last'.ev = "iterations")) =>
          overlay'["mandelbrot"].orbit = currentOrbit]_vars

\* C23 (SpecPage): each panel's iteration uniform is 200 when its drawFractal has run;
\* an iteration-slider event leaves both uniforms at the slider's value and renders both
\* panels; and once both panels exist the two uniforms are equal, and equal to the
\* slider's value, in every state.
IterationsInSync ==
    /\ [][(last'.ev = "init" /\ phase' # phase) =>
             iterationBuffer'[last'.panel] = DefaultIterations]_vars
    /\ [][(last'.ev = "iterations" /\ settingsLeft' # settingsLeft) =>
             /\ iterationBuffer' = [p \in Panels |-> iterations']
             /\ last'.renderedMandelbrot /\ last'.renderedJulia]_vars
    /\ [](phase = "ready" =>
             /\ iterationBuffer["mandelbrot"] = iterationBuffer["julia"]
             /\ iterationBuffer["julia"] = iterations)

IterationsInSyncWitness ==
    /\ last.ev = "iterations" /\ settingsLeft = 0
    /\ iterations = MinIterations
    /\ iterationBuffer = [p \in Panels |-> MinIterations]

\* a plane point as the readout prints it: two decimals in Mandelbrot.js, six in part_002
shown(c) ==
    IF program = "single" THEN [x |-> toFixed(c.x, 2), y |-> toFixed(c.y, 2)]
    ELSE [x |-> toFixed(c.x, 6), y |-> toFixed(c.y, 6)]

\* C24 as stated (Spec): after a drag on either panel the readout shows the constant
\* that seeds the Julia evaluator.
ReadoutShowsConstant ==
    [][(dragStep("mandelbrot") \/ dragStep("julia")) =>
          readout' = shown(sharedConstant')]_vars

\* C24 (Spec): after a drag the readout shows the point that drag set: currentC in
\* Mandelbrot.js, the dragged panel's marker in part_002.  It is the Julia evaluator's
\* constant except after a drag on the Julia panel of part_002, which leaves that
\* constant as it was.
ReadoutShowsDraggedPoint ==
    [][\A panel \in Panels :
          dragStep(panel) =>
             /\ readout' = shown(IF program = "single" THEN currentC' ELSE markers'[panel])
             /\ (program = "single" \/ panel = "mandelbrot") =>
                    readout' = shown(sharedConstant')
             /\ (program = "markers" /\ panel = "julia") =>
                    sharedConstant' = sharedConstant]_vars

ReadoutShowsDraggedPointWitness ==
    /\ program = "markers" /\ last.ev = "mousedown" /\ last.panel = "julia"
    /\ readout = shown(markers.julia)
    /\ readout # shown(markers.mandelbrot)

\* the panels whose drawFractal has not completed when that of `panel` fails
notStarted(panel) == IF panel = "mandelbrot" THEN Panels ELSE {"julia"}
pointerEvents == {"mousedown", "mousemove", "mouseup", "mouseleave"}

\* C25 (SpecPage): when initWebGPU finds no navigator.gpu or gets no adapter it raises an
\* alert and throws; the failing start-up step renders nothing, and after it no pointer
\* listener exists for the failed panel or a panel initialised after it and no slider
\* listener exists.  After a Mandelbrot failure nothing on the page reacts any more;
\* after a Julia failure only the Mandelbrot panel's pointer listeners react, and they
\* render nothing and write no uniform.
GpuFailureAborts ==
    /\ [][(last'.ev = "initFailed" /\ phase' # phase) =>
             /\ last'.failure \in {"noGpu", "noAdapter"} => last'.alert
             /\ ~last'.renderedMandelbrot /\ ~last'.renderedJulia /\ last'.drewMarker = {}
             /\ \A p \in notStarted(last'.panel) : ~listening(p)'
             /\ phase' # "ready"
             /\ UNCHANGED <<iterationBuffer, juliaCValue, overlay, viewVars>>]_vars
    /\ [][phase # "mandelbrotFailed"]_vars
    /\ [][phase = "juliaFailed" =>
             /\ phase' = "juliaFailed"
             /\ last'.panel = "mandelbrot" /\ last'.ev \in pointerEvents
             /\ ~last'.renderedMandelbrot /\ ~last'.renderedJulia /\ ~last'.wroteJuliaC
             /\ UNCHANGED <<iterationBuffer, juliaCValue, viewVars, pending, showOrbits,
                            iterations>>]_vars

GpuFailureAbortsWitness ==
    /\ phase = "juliaFailed" /\ last.ev = "mousedown" /\ last.panel = "mandelbrot"
    /\ sharedConstant # Origin
    /\ iterationBuffer = [mandelbrot |-> DefaultIterations, julia |-> 0]
    /\ juliaCValue = Origin

\* C26 (SpecPage): no drawing path (drawMarker, drawOrbit) draws a marker circle at a
\* projected position outside the canvas.
OffCanvasMarkerSkipped ==
    \A p \in Panels : overlay[p].circle # "offCanvas"

\* the steps of the returned orbit and the count the shader leaves the loop with
orbitSteps == Len(output.trace.orbit) - 1
shaderCount == output.lane.iter

\* C27 as stated (SpecTrace): for every c and every budget the number of steps of
\* calculateOrbit(c, maxIter) equals the iteration count of the shader's escape loop
\* in Mandelbrot mode.
TraceMatchesShader ==
    output.pc = "done" => orbitSteps = shaderCount

\* C27 (SpecTrace): both counts lie between 1 and the budget; they are equal whenever
\* the escape test of calculateOrbit (doubles) and that of the shader (f32) gave the
\* same answer after every pass, and always for budget 1; while both loops run, both
\* have made the same number of passes.
TraceMatchesWhileTestsAgree ==
    /\ output.pc = "done" =>
          /\ orbitSteps \in 1..input.maxIter /\ shaderCount \in 1..input.maxIter
          /\ output.agreed => orbitSteps = shaderCount
          /\ input.maxIter = 1 => orbitSteps = shaderCount
    /\ (output.pc = "loops" /\ output.agreed) => orbitSteps = shaderCount

TraceMatchesWitness ==
    /\ output.pc = "done" /\ output.agreed
    /\ input.c = <<-6, 1>> /\ input.maxIter = DefaultIterations
    /\ orbitSteps = shaderCount /\ orbitSteps > SmallBudgets /\ orbitSteps < input.maxIter

\* what a drag may change: the constant, the markers, the Julia uniform, the overlays
\* and the readout
draggedState == <<currentC, markers, juliaCValue, overlay, readout>>

\* C28 (Spec): a mousemove changes the constant, a marker or anything drawn from them
\* only if the dragging flag of its own panel is set; a panel's flag is set by every
\* mousedown on that panel and by nothing else, and cleared by every mouseup or
\* mouseleave on that panel and by nothing else, so that it is set exactly when a
\* mousedown on the panel has been followed by no mouseup or mouseleave on it; no
\* event on one panel changes the flag of the other.
DragStateMachine ==
    /\ [][(mouseStep /\ last'.ev = "mousemove" /\
           (draggedState' # draggedState \/ last'.drewMarker # {})) =>
             isDragging[last'.panel]]_vars
    /\ [][mouseStep =>
             /\ last'.ev = "mousedown" => isDragging'[last'.panel]
             /\ last'.ev \in {"mouseup", "mouseleave"} => ~isDragging'[last'.panel]
             /\ last'.ev = "mousemove" => isDragging' = isDragging
             /\ \A p \in Panels \ {last'.panel} : isDragging'[p] = isDragging[p]]_vars
    /\ [][isDragging' # isDragging => mouseStep]_vars

DragStateMachineWitness ==
    /\ last.ev = "mouseleave" /\ last.panel = "mandelbrot"
    /\ isDragging = [mandelbrot |-> FALSE, julia |-> TRUE]

\* C29 (Spec): a Mandelbrot-panel drag that arrives while the Julia panel's drawFractal
\* is suspended in initWebGPU completes normally: it sets the constant and touches
\* neither the Julia uniform nor the Julia render function, which do not exist yet.  The
\* step that completes the Julia initialisation leaves the Julia c uniform equal to the
\* constant whatever drags preceded it, and from then on the two are equal in every
\* state.
InitRaceHarmless ==
    /\ [][(dragStep("mandelbrot") /\ phase # "ready") =>
             /\ sharedConstant' = last'.point /\ readout' = shown(last'.point)
             /\ ~last'.wroteJuliaC /\ ~last'.renderedJulia /\ juliaCValue' = juliaCValue
             /\ last'.failure = "none" /\ phase' = phase]_vars
    /\ [][(phase # "ready" /\ phase' = "ready") =>
             /\ juliaCValue' = ToF32Pair(sharedConstant') /\ sharedConstant' = sharedConstant
             /\ last'.wroteJuliaC /\ last'.renderedJulia]_vars
    /\ [](phase = "ready" => juliaCValue = ToF32Pair(sharedConstant))

InitRaceHarmlessWitness ==
    /\ phase = "ready" /\ last.ev = "init" /\ last.panel = "julia"
    /\ isDragging["mandelbrot"] /\ sharedConstant # Origin
    /\ juliaCValue = ToF32Pair(sharedConstant)

\* the Mandelbrot marker's projected pixel is inside the canvas
markerInView == ~outsideCanvas(sharedConstant, mandelbrotCenter, mandelbrotScale)
\* the animation under way was started by updateZoom(v) with v > 1 on the present
\* constant: the centre target is the constant, the scale target is not the default
zoomingOnMarker ==
    /\ targetMandelbrotCenter' = sharedConstant'
    /\ targetMandelbrotScale' < defaultMandelbrotScale

\* C30 (Spec): an animateZoom step of a zoom with slider value above 1 that finds the
\* Mandelbrot marker's projected pixel inside the canvas leaves it inside, so from
\* updateZoom(v) on a marker in view to the idle state at the end of the animation
\* drawMarker never skips the marker.
MarkerStaysInView ==
    [][(zoomStep /\ zoomingOnMarker /\ markerInView) => markerInView']_vars

===========================================================================
